---- MODULE Spec2Model ----
(***************************************************************************)
(* A model of cvhelper/image_operations.py: the guarded parameter-         *)
(* forwarding wrappers, rotate_image and the Contour value object.         *)
(*                                                                         *)
(* The vision library's primitives are uninterpreted: a primitive applied  *)
(* to an array yields a term naming the primitive and the array it read.   *)
(* Every invocation is logged in `calls` with the arguments it received,   *)
(* and every step a function takes is logged in `steps`.  The library's    *)
(* own argument checks are not part of the model: a primitive is a total   *)
(* function of what it is handed.                                          *)
(***************************************************************************)
EXTENDS Integers, Sequences, FiniteSets, TLC

VARIABLES
    fn,       \* the function (or method) called last
    params,   \* the arguments the caller gave it
    image,    \* the caller's image object, as it is after the call
    steps,    \* the steps the call took, in order
    calls,    \* the image-processing primitive invocations of the call
    result,   \* the array the call returned (NoArray when it raised)
    raised,   \* the exception the call raised ("" when it returned)
    points,   \* Contour.points
    moment,   \* Contour.moment
    area,     \* Contour.area
    given,    \* the moment argument the Contour was constructed with
    got       \* what the last Contour method returned

callVars == <<fn, params, image, steps, calls, result, raised>>
contourVars == <<points, moment, area, given, got>>
vars == <<fn, params, image, steps, calls, result, raised, points, moment, area, given, got>>

----------------------------------------------------------------------------
(* Bounds of the model. *)

MaxDim == 2        \* image height and width range over 0..MaxDim
MaxChannels == 3   \* the channel count of a 3-dimensional image: 0..MaxChannels
NumImages == 2     \* distinct pixel contents an input image may hold
MaxParam == 2      \* kernel sizes, iteration counts, thresholds: 1..MaxParam
MaxFactor == 3     \* resize factors: 1..MaxFactor

----------------------------------------------------------------------------
(* Library constants the wrappers forward. *)

MORPH_RECT == 0
MORPH_CROSS == 1
MORPH_OPEN == 2
MORPH_CLOSE == 3
NORM_MINMAX == 32
INTER_CUBIC == 2
COLOR_BGR2GRAY == 6
COLOR_BGR2HSV == 40
COLOR_BGR2XYZ == 32
COLOR_BGR2HLS == 52
COLOR_BGR2LUV == 50
THRESH_BINARY == 0
THRESH_TOZERO == 3
THRESH_OTSU == 8

MorphShape == {MORPH_RECT, MORPH_CROSS}

RECURSIVE BitOr(_, _)
BitOr(a, b) ==
    IF a = 0 THEN b
    ELSE IF b = 0 THEN a
    ELSE (IF (a % 2 = 1) \/ (b % 2 = 1) THEN 1 ELSE 0) + 2 * BitOr(a \div 2, b \div 2)

----------------------------------------------------------------------------
(* Arrays.  An array is a shape and the terms describing its contents:     *)
(* layout "whole" holds one term for the whole array, layout "channels"    *)
(* one term per index of the last axis.                                    *)

RECURSIVE Product(_)
Product(s) == IF s = <<>> THEN 1 ELSE Head(s) * Product(Tail(s))

Abs(n) == IF n < 0 THEN -n ELSE n

Reverse(s) == [i \in 1..Len(s) |-> s[Len(s) + 1 - i]]

\* The term of data nobody computed: channel `chan` of input image `id`
\* (chan = -1: the whole array).
Term(op, id, chan) == [op |-> op, of |-> id, inchan |-> chan]

NoArray == [kind |-> "None", shape |-> <<>>, layout |-> "whole", data |-> <<>>]

Whole(shape, t) == [kind |-> "ndarray", shape |-> shape, layout |-> "whole", data |-> <<t>>]

InputImage(id, shape) ==
    IF Len(shape) = 3
    THEN [kind |-> "ndarray", shape |-> shape, layout |-> "channels",
          data |-> [i \in 1..shape[3] |-> Term("input", id, i - 1)]]
    ELSE Whole(shape, Term("input", id, -1))

Dims == 0..MaxDim
Shapes2 == {<<h, w>> : h \in Dims, w \in Dims}
Shapes3 == {<<h, w, c>> : h \in Dims, w \in Dims, c \in 0..MaxChannels}

Images ==
    {NoArray} \cup {InputImage(id, s) : id \in 1..NumImages, s \in Shapes2 \cup Shapes3}

\* ndarray.size
Size(a) == Product(a.shape)

\* The pixel content an input array was built from.
IdOf(a) == IF a.data = <<>> THEN 0 ELSE a.data[1].of

\* What a primitive reads when handed the array itself.
View(a) == [of |-> IdOf(a), inchan |-> -1, shape |-> a.shape]

\* What a primitive reads when handed image[..., i].
ChannelView(a, i) == [of |-> IdOf(a), inchan |-> i, shape |-> SubSeq(a.shape, 1, 2)]

\* One invocation of a library primitive: what it read, the arguments it
\* received, and the array it produced (`shape` is <<>> where the library
\* alone decides the output's shape).
CvCall(prim, src, args, shape) ==
    [prim |-> prim, src |-> src, args |-> args,
     out |-> Whole(shape, Term(prim, src.of, src.inchan))]

\* np.zeros_like(image): a fresh array of the image's shape.
zeros_like(a) ==
    [kind |-> "ndarray", shape |-> a.shape, layout |-> a.layout,
     data |-> [i \in 1..Len(a.data) |-> Term("zeros", 0, i - 1)]]

None == <<>>
Some(v) == <<v>>

----------------------------------------------------------------------------
(* How a call ends. *)

Raises(f, p, img, st, cl, exc) ==
    /\ fn = "none"
    /\ fn' = f
    /\ params' = p
    /\ image' = img
    /\ steps' = st
    /\ calls' = cl
    /\ result' = NoArray
    /\ raised' = exc
    /\ UNCHANGED contourVars

Returns(f, p, img, st, cl, res) ==
    /\ fn = "none"
    /\ fn' = f
    /\ params' = p
    /\ image' = img
    /\ steps' = st
    /\ calls' = cl
    /\ result' = res
    /\ raised' = ""
    /\ UNCHANGED contourVars

_error_if_image_empty_None_only(img) == img.kind = "None"

\* TRUE when the guard raises ValueError("Image is empty").
_error_if_image_empty(img) == img.kind = "None" \/ Size(img) = 0

Guard == "_error_if_image_empty"
Empty(f, p, img) == Raises(f, p, img, <<Guard>>, <<>>, "ValueError: Image is empty")

\* A wrapper that checks the image, makes one primitive call and returns
\* what the call produced.
Forward(f, p, img, pre, call) ==
    IF _error_if_image_empty(img)
    THEN Empty(f, p, img)
    ELSE Returns(f, p, img, <<Guard>> \o pre \o <<call.prim>>, <<call>>, call.out)

StructuringElement(shape, size) == [shape |-> shape, ksize |-> <<size, size>>]

----------------------------------------------------------------------------
(* The guarded wrappers. *)

P == 1..MaxParam

dilate(img, kernel_size, shape) ==
    Forward("dilate", [kernel_size |-> kernel_size, shape |-> shape], img,
            <<"cv.getStructuringElement">>,
            CvCall("cv.dilate", View(img),
                   [kernel |-> StructuringElement(shape, kernel_size)], <<>>))

morph_open(img, size, iterations) ==
    Forward("morph_open", [size |-> size, iterations |-> iterations], img,
            <<"cv.getStructuringElement">>,
            CvCall("cv.morphologyEx", View(img),
                   [op |-> MORPH_OPEN, kernel |-> StructuringElement(MORPH_RECT, size),
                    iterations |-> iterations], <<>>))

morph_close(img, size, iterations) ==
    Forward("morph_close", [size |-> size, iterations |-> iterations], img,
            <<"cv.getStructuringElement">>,
            CvCall("cv.morphologyEx", View(img),
                   [op |-> MORPH_CLOSE, kernel |-> StructuringElement(MORPH_RECT, size),
                    iterations |-> iterations], <<>>))

\* A normalize whose primitive call is given no destination: the array
\* returned is still the zeros it was created with.
normalize_unfilled(img, min, max) ==
    LET p == [min |-> min, max |-> max]
        normalized == zeros_like(img)
        call == CvCall("cv.normalize", View(img),
                       [dst |-> "None", alpha |-> max, beta |-> min,
                        norm_type |-> NORM_MINMAX], <<>>)
    IN  IF _error_if_image_empty(img)
        THEN Empty("normalize", p, img)
        ELSE Returns("normalize", p, img, <<Guard, "np.zeros_like", "cv.normalize">>,
                     <<call>>, normalized)

\* cv.normalize writes into the destination it is handed, so `normalized`
\* holds the call's output when it is returned.
normalize(img, min, max) ==
    LET p == [min |-> min, max |-> max]
        call == CvCall("cv.normalize", View(img),
                       [dst |-> "normalized", alpha |-> max, beta |-> min,
                        norm_type |-> NORM_MINMAX], <<>>)
        normalized == call.out
    IN  IF _error_if_image_empty(img)
        THEN Empty("normalize", p, img)
        ELSE Returns("normalize", p, img, <<Guard, "np.zeros_like", "cv.normalize">>,
                     <<call>>, normalized)

\* saturate_cast<int> of num/den (num >= 0, den > 0): round half to even.
cvRound(num, den) ==
    LET q == num \div den
        r == num % den
    IN  IF 2 * r < den THEN q
        ELSE IF 2 * r > den THEN q + 1
        ELSE IF q % 2 = 0 THEN q ELSE q + 1

\* The shape cv.resize gives its output when dsize is None: fx and fy are
\* rationals <<numerator, denominator>>.
ResizeShape(shape, fx, fy) ==
    LET rows == cvRound(shape[1] * fy[1], fy[2])
        cols == cvRound(shape[2] * fx[1], fx[2])
    IN  IF Len(shape) = 3 /\ shape[3] > 1
        THEN <<rows, cols, shape[3]>>
        ELSE <<rows, cols>>

Enlarge(factor) == <<factor, 1>>

\* 1 / factor
Reciprocal(factor) == <<1, factor>>

resize(img, factor) ==
    LET p == [factor |-> factor]
        fx == Reciprocal(factor)
        fy == Reciprocal(factor)
        outShape == ResizeShape(img.shape, fx, fy)
        call == CvCall("cv.resize", View(img),
                       [dsize |-> None, fx |-> fx, fy |-> fy,
                        interpolation |-> INTER_CUBIC], outShape)
    IN  IF _error_if_image_empty(img)
        THEN Empty("resize", p, img)
        ELSE Returns("resize", p, img, <<Guard, "cv.resize">>, <<call>>, call.out)

cvtColor(f, img, code) ==
    Forward(f, <<>>, img, <<>>, CvCall("cv.cvtColor", View(img), [code |-> code], <<>>))

bgr2gray(img) == cvtColor("bgr2gray", img, COLOR_BGR2GRAY)

bgr2hsv(img) == cvtColor("bgr2hsv", img, COLOR_BGR2HSV)

bgr2xyz(img) == cvtColor("bgr2xyz", img, COLOR_BGR2XYZ)

bgr2hls(img) == cvtColor("bgr2hls", img, COLOR_BGR2HLS)

bgr2luv(img) == cvtColor("bgr2luv", img, COLOR_BGR2LUV)

blur_gaussian(img, kernel_size, sigma_x, sigma_y) ==
    LET sx == IF sigma_x = None THEN 0 ELSE sigma_x[1]
        sy == IF sigma_y = None THEN 0 ELSE sigma_y[1]
    IN  Forward("blur_gaussian",
                [kernel_size |-> kernel_size, sigma_x |-> sigma_x, sigma_y |-> sigma_y],
                img, <<>>,
                CvCall("cv.GaussianBlur", View(img),
                       [ksize |-> <<kernel_size, kernel_size>>,
                        sigmaX |-> sx, sigmaY |-> sy], <<>>))

blur_median(img, kernel_size) ==
    Forward("blur_median", [kernel_size |-> kernel_size], img, <<>>,
            CvCall("cv.medianBlur", View(img), [ksize |-> kernel_size], <<>>))

\* _, img = cv.threshold(image, thresh, maxval, type); return img
threshold(f, p, img, thresh, maxval, type) ==
    Forward(f, p, img, <<>>,
            CvCall("cv.threshold", View(img),
                   [thresh |-> thresh, maxval |-> maxval, type |-> type], <<>>))

threshold_otsu(img, max_value) ==
    threshold("threshold_otsu", [max_value |-> max_value], img,
              0, max_value, THRESH_BINARY + THRESH_OTSU)

threshold_binary(img, value, max_value) ==
    threshold("threshold_binary", [value |-> value, max_value |-> max_value], img,
              value, max_value, THRESH_BINARY)

threshold_tozero(img, value, max_value) ==
    threshold("threshold_tozero", [value |-> value, max_value |-> max_value], img,
              value, max_value, THRESH_TOZERO)

threshold_otsu_tozero(img, max_value) ==
    threshold("threshold_otsu_tozero", [max_value |-> max_value], img,
              0, max_value, BitOr(THRESH_OTSU, THRESH_TOZERO))

canny(img, low_threshold, high_threshold) ==
    Forward("canny", [low_threshold |-> low_threshold, high_threshold |-> high_threshold],
            img, <<>>,
            CvCall("cv.Canny", View(img),
                   [threshold1 |-> low_threshold, threshold2 |-> high_threshold,
                    L2gradient |-> TRUE], <<>>))

Wrappers ==
    {"dilate", "morph_open", "morph_close", "normalize", "resize", "bgr2gray",
     "bgr2hsv", "bgr2xyz", "bgr2hls", "bgr2luv", "blur_gaussian", "blur_median",
     "threshold_otsu", "threshold_binary", "threshold_tozero",
     "threshold_otsu_tozero", "canny"}

----------------------------------------------------------------------------
(* The wrappers' specification: the caller holds any image, and calls any   *)
(* one wrapper on it with any parameters.                                   *)

NoContour ==
    /\ points = <<>>
    /\ moment = [m00 |-> <<0, 1>>]
    /\ area = <<0, 1>>
    /\ given = <<>>
    /\ got = <<>>

NoCall ==
    /\ fn = "none"
    /\ params = <<>>
    /\ steps = <<>>
    /\ calls = <<>>
    /\ result = NoArray
    /\ raised = ""

\* The caller holds an image and has called nothing yet.
Init == NoCall /\ image \in Images /\ NoContour

Optional == {None} \cup {Some(v) : v \in P}

Next ==
    \/ \E k \in P, s \in MorphShape : dilate(image, k, s)
    \/ \E k \in P, n \in P : morph_open(image, k, n)
    \/ \E k \in P, n \in P : morph_close(image, k, n)
    \/ \E lo \in 0..1, hi \in P : normalize(image, lo, hi)
    \/ \E f \in 1..MaxFactor : resize(image, f)
    \/ bgr2gray(image)
    \/ bgr2hsv(image)
    \/ bgr2xyz(image)
    \/ bgr2hls(image)
    \/ bgr2luv(image)
    \/ \E k \in P, sx \in Optional, sy \in Optional :
           blur_gaussian(image, k, sx, sy)
    \/ \E k \in P : blur_median(image, k)
    \/ \E m \in P : threshold_otsu(image, m)
    \/ \E v \in P, m \in P : threshold_binary(image, v, m)
    \/ \E v \in P, m \in P : threshold_tozero(image, v, m)
    \/ \E m \in P : threshold_otsu_tozero(image, m)
    \/ \E lo \in P, hi \in P : canny(image, lo, hi)

Spec == Init /\ [][Next]_vars

----------------------------------------------------------------------------
(* rotate_image. *)


AngleUnit == {"RADIANS", "DEGREES"}

\* Angles are rationals <<numerator, denominator>>; an angle in radians is
\* written as its multiple of pi, so 180 / np.pi * angle is 180 times it.
RadiansToDegrees(angle) == <<180 * angle[1], angle[2]>>

\* cv.getRotationMatrix2D, uninterpreted.
getRotationMatrix2D(center, angle, scale) ==
    [center |-> center, angle |-> angle, scale |-> scale]

\* numpy's rule for storing an array of shape `from` into a slot of shape `to`.
Broadcastable(from, to) ==
    /\ Len(from) <= Len(to)
    /\ \A k \in 1..Len(from) :
           LET f == from[Len(from) + 1 - k]
               t == to[Len(to) + 1 - k]
           IN  f = t \/ f = 1

\* copy[..., i] = arr.  ok is FALSE when numpy refuses the shapes.
SetChannel(copy, i, arr) ==
    LET slot == SubSeq(copy.shape, 1, Len(copy.shape) - 1)
    IN  IF arr.shape = slot
        THEN [ok |-> TRUE, arr |-> [copy EXCEPT !.data[i + 1] = arr.data[1]]]
        ELSE IF Broadcastable(arr.shape, slot)
        THEN [ok |-> TRUE,
              arr |-> [copy EXCEPT !.data[i + 1] =
                           Term("broadcast", arr.data[1].of, arr.data[1].inchan)]]
        ELSE [ok |-> FALSE, arr |-> copy]

\* cv.warpAffine(src, M, dsize): dsize is (width, height), the output array's
\* shape (height, width).
warpAffine(src, M, dsize) ==
    CvCall("cv.warpAffine", src, [M |-> M, dsize |-> dsize], Reverse(dsize))

FirstTwo(shape) == SubSeq(shape, 1, 2)

\* image.shape[-2::-1]: from the last but one axis down to the first.
ShapeDropLastReversed(shape) == Reverse(SubSeq(shape, 1, Len(shape) - 1))

\* image[..., i]
ChannelOf(img, i) == ChannelView(img, i)

\* The loop over channels, from channel i on.  acc holds the copy, the
\* warps made so far and the exception that ended the loop, if any.
RECURSIVE WarpChannels(_, _, _, _, _)
WarpChannels(img, M, shape, i, acc) ==
    IF i >= acc.copy.shape[Len(acc.copy.shape)]
    THEN acc
    ELSE LET call == warpAffine(ChannelOf(img, i), M, shape)
             set == SetChannel(acc.copy, i, call.out)
         IN  IF set.ok
             THEN WarpChannels(img, M, shape, i + 1,
                               [copy |-> set.arr, calls |-> Append(acc.calls, call),
                                raised |-> ""])
             ELSE [copy |-> acc.copy, calls |-> Append(acc.calls, call),
                   raised |-> "ValueError: could not broadcast"]

rotate_image(img, center, angle, scale, unit) ==
    LET p == [center |-> center, angle |-> angle, scale |-> scale, unit |-> unit]
        degrees == IF unit = "RADIANS" THEN RadiansToDegrees(angle) ELSE angle
        rotation_matrix == getRotationMatrix2D(center, degrees, scale)
        ndim == Len(img.shape)
    IN  IF img.kind = "None"
        THEN Raises("rotate_image", p, img, <<"cv.getRotationMatrix2D">>, <<>>,
                    "AttributeError")
        ELSE IF ndim = 2
        THEN LET call == warpAffine(View(img), rotation_matrix, Reverse(img.shape))
             IN  Returns("rotate_image", p, img,
                         <<"cv.getRotationMatrix2D", "cv.warpAffine">>, <<call>>, call.out)
        ELSE IF ndim = 3
        THEN LET shape == ShapeDropLastReversed(img.shape)
                 done == WarpChannels(img, rotation_matrix, shape, 0,
                                      [copy |-> zeros_like(img), calls |-> <<>>,
                                       raised |-> ""])
                 st == <<"cv.getRotationMatrix2D", "np.zeros_like">>
                       \o [k \in 1..Len(done.calls) |-> "cv.warpAffine"]
             IN  IF done.raised = ""
                 THEN Returns("rotate_image", p, img, st, done.calls, done.copy)
                 ELSE Raises("rotate_image", p, img, st, done.calls, done.raised)
        ELSE Raises("rotate_image", p, img, <<"cv.getRotationMatrix2D">>, <<>>,
                    "ValueError: Image must have 2 or 3 dimensions.")

Shapes1 == {<<n>> : n \in Dims}
Shapes4 == {<<h, w, 1, 1>> : h \in Dims, w \in Dims}

RotateImages ==
    Images \cup {InputImage(id, s) : id \in 1..NumImages, s \in Shapes1 \cup Shapes4}

\* 0, a quarter turn and 3/4 (of pi in radians, of a degree in degrees).
Angles == {<<0, 1>>, <<1, 2>>, <<3, 4>>}
Centers == {<<0, 0>>, <<1, 2>>}

InitRotate == NoCall /\ image \in RotateImages /\ NoContour

NextRotate ==
    \E c \in Centers, a \in Angles, k \in P, u \in AngleUnit :
        rotate_image(image, c, a, k, u)

SpecRotate == InitRotate /\ [][NextRotate]_vars

----------------------------------------------------------------------------
(* Contour.  points is the (N, 1, 2) array of cv.findContours as a sequence *)
(* of N points <<x, y>>; a moment is the dictionary of cv.moments, of which *)
(* the model keeps "m00", a rational <<numerator, denominator>>.            *)

MaxPoints == 2     \* a contour holds 1..MaxPoints points
MaxCoord == 1      \* point coordinates: 0..MaxCoord

\* Twice the signed area of the closed polygon through pts (Green's formula).
RECURSIVE Shoelace(_, _)
Shoelace(pts, i) ==
    IF i > Len(pts) THEN 0
    ELSE LET a == pts[i]
             b == pts[(i % Len(pts)) + 1]
         IN  a[1] * b[2] - b[1] * a[2] + Shoelace(pts, i + 1)

\* cv.moments(points) of a contour: m00 is the polygon's area.
cv_moments(pts) == [m00 |-> <<Abs(Shoelace(pts, 1)), 2>>]

AlwaysComputed(pts, m) ==
    LET mm == cv_moments(pts)
    IN  [points |-> pts, moment |-> mm, area |-> mm.m00,
         calls |-> <<[prim |-> "cv.moments", out |-> mm]>>]

\* Contour.__init__: the fields of the new object, and the primitive
\* invocations made to build it.
__init__(pts, m) ==
    LET mm == IF m = None THEN cv_moments(pts) ELSE m[1]
    IN  [points |-> pts, moment |-> mm, area |-> mm.m00,
         calls |-> IF m = None THEN <<[prim |-> "cv.moments", out |-> mm]>> ELSE <<>>]

\* Contour.__len__
__len__(pts) == Len(pts)

\* Python's indexing of an axis of length n: i is valid from -n to n - 1,
\* and a negative i counts from the end.
InRange(i, n) == -n <= i /\ i < n
Norm(i, n) == IF i < 0 THEN i + n ELSE i

\* A key is an int (isint, idx = <<i>>) or a tuple of ints (idx).
IntKey(i) == [isint |-> TRUE, idx |-> <<i>>]
TupleKey(t) == [isint |-> FALSE, idx |-> t]

\* How a Contour method ends: the object's fields after it, what it
\* returned and what it raised.
Method(f, p, pts, ret, exc) ==
    /\ fn # "none"
    /\ fn' = f
    /\ params' = p
    /\ points' = pts
    /\ got' = ret
    /\ raised' = exc
    /\ UNCHANGED <<moment, area, given, image, steps, calls, result>>

getitem_swapped(key) ==
    LET n == Len(points)
        p == [key |-> key]
        k == key.idx
    IN  IF key.isint
        THEN IF InRange(k[1], n)
             THEN Method("__getitem__", p, points, points[Norm(k[1], n) + 1], "")
             ELSE Method("__getitem__", p, points, <<>>, "IndexError")
        ELSE IF Len(k) > 2
        THEN Method("__getitem__", p, points, <<>>, "ValueError: Too many indices")
        ELSE IF Len(k) < 2
        THEN Method("__getitem__", p, points, <<>>, "IndexError")
        ELSE IF InRange(k[2], n) /\ InRange(k[1], 2)
        THEN Method("__getitem__", p, points,
                    <<points[Norm(k[2], n) + 1][Norm(k[1], 2) + 1]>>, "")
        ELSE Method("__getitem__", p, points, <<>>, "IndexError")

\* Contour.__getitem__.  A point is returned as <<x, y>>, a coordinate as <<v>>.
__getitem__(key) ==
    LET n == Len(points)
        p == [key |-> key]
        k == key.idx
    IN  IF key.isint
        THEN IF InRange(k[1], n)
             THEN Method("__getitem__", p, points, points[Norm(k[1], n) + 1], "")
             ELSE Method("__getitem__", p, points, <<>>, "IndexError")
        ELSE IF Len(k) > 2
        THEN Method("__getitem__", p, points, <<>>, "ValueError: Too many indices")
        ELSE IF Len(k) < 2
        THEN Method("__getitem__", p, points, <<>>, "IndexError")
        ELSE IF InRange(k[1], n) /\ InRange(k[2], 2)
        THEN Method("__getitem__", p, points,
                    <<points[Norm(k[1], n) + 1][Norm(k[2], 2) + 1]>>, "")
        ELSE Method("__getitem__", p, points, <<>>, "IndexError")

\* Contour.__setitem__.  A value is a point <<x, y>> or a scalar <<v>>.  An
\* int key stores the value and then reaches len(key), which raises
\* TypeError: the store has already happened.
__setitem__(key, value) ==
    LET n == Len(points)
        p == [key |-> key]
        k == key.idx
        point == IF Len(value) = 1 THEN <<value[1], value[1]>> ELSE value
    IN  IF key.isint
        THEN IF InRange(k[1], n)
             THEN Method("__setitem__", p,
                         [points EXCEPT ![Norm(k[1], n) + 1] = point], <<>>, "TypeError")
             ELSE Method("__setitem__", p, points, <<>>, "IndexError")
        ELSE IF Len(k) > 2
        THEN Method("__setitem__", p, points, <<>>, "ValueError: Too many indices")
        ELSE IF Len(k) < 2
        THEN Method("__setitem__", p, points, <<>>, "IndexError")
        ELSE IF ~(InRange(k[1], n) /\ InRange(k[2], 2))
        THEN Method("__setitem__", p, points, <<>>, "IndexError")
        ELSE IF Len(value) # 1
        THEN Method("__setitem__", p, points, <<>>, "ValueError")
        ELSE Method("__setitem__", p,
                    [points EXCEPT ![Norm(k[1], n) + 1][Norm(k[2], 2) + 1] = value[1]],
                    <<>>, "")

Coords == 0..MaxCoord
Points == {<<x, y>> : x \in Coords, y \in Coords}

RECURSIVE SeqsUpTo(_, _)
SeqsUpTo(S, n) ==
    IF n = 0 THEN {<<>>}
    ELSE LET shorter == SeqsUpTo(S, n - 1)
         IN  shorter \cup {Append(q, x) : q \in shorter, x \in S}

PointArrays == SeqsUpTo(Points, MaxPoints) \ {<<>>}

GivenMoments == {[m00 |-> <<1, 2>>], [m00 |-> <<7, 2>>]}

\* Every int from one below to one past the longest contour, every pair
\* that can name a coordinate, and pairs and tuples that cannot.
Keys ==
    {IntKey(i) : i \in -1..MaxPoints}
    \cup {TupleKey(<<i, j>>) : i \in 0..(MaxPoints - 1), j \in 0..1}
    \cup {TupleKey(<<MaxPoints, 0>>), TupleKey(<<0, 2>>), TupleKey(<<-1, -1>>),
          TupleKey(<<0>>), TupleKey(<<0, 0, 0>>)}

Values == {<<0>>, <<MaxCoord>>, <<MaxCoord, 0>>}

\* A Contour has just been constructed, from any points and with or
\* without a moment.
InitContour ==
    /\ fn = "__init__"
    /\ \E pts \in PointArrays, m \in {None} \cup {Some(g) : g \in GivenMoments} :
           LET c == __init__(pts, m)
           IN  /\ params = [points |-> pts, moment |-> m]
               /\ given = m
               /\ points = c.points
               /\ moment = c.moment
               /\ area = c.area
               /\ calls = c.calls
    /\ got = <<>>
    /\ raised = ""
    /\ image = NoArray
    /\ steps = <<>>
    /\ result = NoArray

Len_ ==
    Method("__len__", <<>>, points, <<__len__(points)>>, "")

NextContour ==
    \/ Len_
    \/ \E key \in Keys : __getitem__(key)
    \/ \E key \in Keys, value \in Values : __setitem__(key, value)

SpecContour == InitContour /\ [][NextContour]_vars

----------------------------------------------------------------------------
(* The properties checked. *)

\* The primitive each wrapper is documented to forward to.
PrimOf(f) ==
    CASE f = "dilate" -> "cv.dilate"
      [] f \in {"morph_open", "morph_close"} -> "cv.morphologyEx"
      [] f = "normalize" -> "cv.normalize"
      [] f = "resize" -> "cv.resize"
      [] f \in {"bgr2gray", "bgr2hsv", "bgr2xyz", "bgr2hls", "bgr2luv"} -> "cv.cvtColor"
      [] f = "blur_gaussian" -> "cv.GaussianBlur"
      [] f = "blur_median" -> "cv.medianBlur"
      [] f \in {"threshold_otsu", "threshold_binary", "threshold_tozero",
                "threshold_otsu_tozero"} -> "cv.threshold"
      [] f = "canny" -> "cv.Canny"


\* An image that is an array and has no axis of length 0.
NonEmptyImage ==
    /\ image.kind = "ndarray"
    /\ \A k \in 1..Len(image.shape) : image.shape[k] > 0

WholeImage == [of |-> image.data[1].of, inchan |-> -1, shape |-> image.shape]

\* C1: on a non-empty image each of the 17 wrappers invokes its primitive
\* exactly once, on the caller's image, and returns the array that call
\* produced: the call is the last step, and the result is neither the input
\* nor an intermediate buffer.
C1_ForwardsOnce ==
    (fn \in Wrappers /\ NonEmptyImage) =>
        /\ raised = ""
        /\ Len(calls) = 1
        /\ calls[1].prim = PrimOf(fn)
        /\ calls[1].src = WholeImage
        /\ Cardinality({k \in 1..Len(steps) : steps[k] = PrimOf(fn)}) = 1
        /\ steps[Len(steps)] = PrimOf(fn)
        /\ result = calls[1].out
        /\ result.data = <<[op |-> PrimOf(fn), of |-> image.data[1].of, inchan |-> -1]>>

C1_Witness ==
    /\ fn = "normalize"
    /\ NonEmptyImage
    /\ Len(image.shape) = 3
    /\ raised = ""
    /\ result = calls[1].out

\* C4: resize forwards fx = fy = 1/factor and no explicit size, so each of
\* the output's height and width is the input's divided by the factor, to
\* the nearest pixel: never larger than the input's, and with a factor of 2
\* exactly half of an even height or width.
C4_ResizeShrinks ==
    (fn = "resize" /\ NonEmptyImage) =>
        LET f == params.factor
            a == calls[1].args
            H == image.shape[1]
            W == image.shape[2]
            rows == result.shape[1]
            cols == result.shape[2]
        IN  /\ a.dsize = None
            /\ a.fx[1] * f = a.fx[2]
            /\ a.fy[1] * f = a.fy[2]
            /\ 2 * Abs(f * rows - H) <= f
            /\ 2 * Abs(f * cols - W) <= f
            /\ rows <= H
            /\ cols <= W
            /\ (f = 2 /\ H % 2 = 0) => 2 * rows = H
            /\ (f = 2 /\ W % 2 = 0) => 2 * cols = W

C4_Witness ==
    /\ fn = "resize"
    /\ NonEmptyImage
    /\ params.factor = 2
    /\ image.shape[1] = 2
    /\ image.shape[2] = 2
    /\ raised = ""
    /\ result.shape[1] = 1
    /\ result.shape[2] = 1

\* C6: every wrapper runs the guard first, and on an image that is None or
\* has size 0 it raises ValueError("Image is empty") having done nothing
\* else: no primitive is invoked and nothing is returned.
C6_EmptyImageRaises ==
    fn \in Wrappers =>
        /\ steps[1] = "_error_if_image_empty"
        /\ (image.kind = "None" \/ \E k \in 1..Len(image.shape) : image.shape[k] = 0) =>
               /\ raised = "ValueError: Image is empty"
               /\ calls = <<>>
               /\ steps = <<"_error_if_image_empty">>
               /\ result = NoArray

C6_Witness ==
    /\ fn = "canny"
    /\ image.kind = "ndarray"
    /\ image.shape = <<0, 1>>
    /\ raised = "ValueError: Image is empty"
    /\ calls = <<>>

\* C2: on a 3-dimensional image with C channels rotate_image makes exactly C
\* warps, warp i of channel i of the input, all with one rotation matrix;
\* channel i of the result is the output of warp i and the result has the
\* input's shape.  On a 2-dimensional image it makes one warp of the image
\* and returns its output.  The input image is never modified.
C2_RotatePerChannel ==
    /\ [](fn = "rotate_image" /\ image.kind = "ndarray" /\ Len(image.shape) = 3 =>
            LET C == image.shape[3]
                plane == <<image.shape[1], image.shape[2]>>
            IN  /\ raised = ""
                /\ Len(calls) = C
                /\ \A i \in 0..(C - 1) :
                       /\ calls[i + 1].prim = "cv.warpAffine"
                       /\ calls[i + 1].src =
                              [of |-> image.data[i + 1].of, inchan |-> i, shape |-> plane]
                       /\ calls[i + 1].args.M = calls[1].args.M
                       /\ calls[i + 1].args.M.center = params.center
                       /\ calls[i + 1].args.M.scale = params.scale
                       /\ calls[i + 1].out.shape = plane
                       /\ result.data[i + 1] = calls[i + 1].out.data[1]
                       /\ result.data[i + 1] =
                              [op |-> "cv.warpAffine", of |-> image.data[i + 1].of,
                               inchan |-> i]
                /\ result.kind = "ndarray"
                /\ result.layout = "channels"
                /\ Len(result.data) = C
                /\ result.shape = image.shape)
    /\ [](fn = "rotate_image" /\ image.kind = "ndarray" /\ Len(image.shape) = 2 =>
            /\ raised = ""
            /\ Len(calls) = 1
            /\ calls[1].prim = "cv.warpAffine"
            /\ calls[1].src = WholeImage
            /\ result = calls[1].out
            /\ result.shape = image.shape)
    /\ [][image' = image]_vars

C2_Witness ==
    /\ fn = "rotate_image"
    /\ Len(image.shape) = 3
    /\ image.shape[1] # image.shape[2]
    /\ image.shape[3] = 3
    /\ raised = ""
    /\ Len(calls) = 3
    /\ result.data[3] = calls[3].out.data[1]

\* C3: __getitem__ with an int key i, 0 <= i < len, returns point i; with a
\* two-element key (i, j) naming a coordinate it returns coordinate j of
\* point i; and no read changes points, moment or area.
C3_GetItemPositional ==
    /\ [](fn = "__getitem__" =>
            LET k == params.key.idx
                n == Len(points)
            IN  /\ (params.key.isint /\ 0 <= k[1] /\ k[1] < n) =>
                       /\ raised = ""
                       /\ got = points[k[1] + 1]
                       /\ Len(got) = 2
                /\ (~params.key.isint /\ Len(k) = 2 /\ 0 <= k[1] /\ k[1] < n
                        /\ 0 <= k[2] /\ k[2] < 2) =>
                       /\ raised = ""
                       /\ got = <<points[k[1] + 1][k[2] + 1]>>)
    /\ [][fn' = "__getitem__" => UNCHANGED <<points, moment, area>>]_vars

C3_Witness ==
    /\ fn = "__getitem__"
    /\ ~params.key.isint
    /\ params.key.idx = <<1, 0>>
    /\ Len(points) = 2
    /\ points[1][2] # points[2][1]
    /\ raised = ""
    /\ got = <<points[2][1]>>

\* C5: a Contour built without a moment holds the moment cv.moments computed
\* from its points, one built with a moment holds that moment and never
\* calls cv.moments; either way area is the stored moment's "m00", after
\* construction and after any sequence of __getitem__ and __setitem__.
C5_AreaIsM00 ==
    /\ area = moment.m00
    /\ given = None =>
           /\ Len(calls) = 1
           /\ calls[1].prim = "cv.moments"
           /\ moment = calls[1].out
           /\ fn = "__init__" => moment = cv_moments(points)
    /\ given # None =>
           /\ moment = given[1]
           /\ calls = <<>>

C5_Witness ==
    /\ fn = "__setitem__"
    /\ raised = ""
    /\ given # None
    /\ moment = given[1]
    /\ cv_moments(points) # moment
    /\ area = moment.m00

====
